---------------------------- MODULE Spec2Model ----------------------------
(***************************************************************************)
(* State-machine model of the two browser dashboards of the repository:    *)
(*   - the room-control view   (src/unnamed/part_001, page src/unnamed/    *)
(*     part_000), and                                                      *)
(*   - the log/storage view    (src/static/dashboard.js).                  *)
(* A page loads one of the two scripts, so one behaviour of the model is   *)
(* one page session of one view; the variable `page` says which.  Every    *)
(* action is one callback of the single-threaded event loop (a stream      *)
(* callback, a click handler, a promise continuation, a timer), modelled   *)
(* whole.                                                                  *)
(*                                                                         *)
(* Glyphs are written by name: "bulb" U+1F4A1, "dim" U+1F505, "door",      *)
(* "door_open", "person", "person_check", "sun" U+2600, "sun_cloud"        *)
(* U+1F324, "new_moon" U+1F311, "unlocked" U+1F513, "locked" U+1F512.      *)
(***************************************************************************)
EXTENDS Integers, Sequences, FiniteSets, TLC

(***************************************************************************)
(* Bounds of the exploration (not program constants).                      *)
(***************************************************************************)
\* inputs of the environment in one session: stream frames, stream errors,
\* button clicks
MaxInputs == 2
\* EventSource handles created in one session
MaxHandles == 3
\* a long session is observed from a console that holds capacity - QuietSlack
\* entries, or more (the long-session specification only)
QuietSlack == 1
\* seconds of one session that are observed; a reconnect timer that is still
\* running when they are over is observed until it is due
MaxUptime == 3

(***************************************************************************)
(* Program constants.                                                      *)
(***************************************************************************)
\* part_001:216  while (consoleElement.children.length > 100)
RoomLogCap == 100
\* dashboard.js:120  while (consoleElement.children.length > 500)
LogViewCap == 500
\* part_001:293 and dashboard.js:67  setTimeout(connectToEventSource, 5000), in seconds
ReconnectDelay == 5
\* part_001:100  systemState.luminosity > 700
BrightAbove == 700
\* part_001:102  systemState.luminosity > 300
PartialAbove == 300

\* EventSource.readyState values (the platform's constants)
CONNECTING == "CONNECTING"
OPEN == "OPEN"
CLOSED == "CLOSED"

\* JavaScript null / undefined for string-valued fields
NULL == "null"
UNDEFINED == "undefined"

Min(a, b) == IF a < b THEN a ELSE b

(***************************************************************************)
(* RoomState (part_001:9-19) and the partial states the server sends.      *)
(***************************************************************************)
Fields ==
  {"door_state", "light_state", "user_present", "luminosity", "last_update",
   "detected_user", "users_in_room", "arduino_connected", "manual_override"}

DefaultSystemState ==
  [door_state |-> FALSE, light_state |-> FALSE, user_present |-> FALSE,
   luminosity |-> 0, last_update |-> NULL, detected_user |-> NULL,
   users_in_room |-> <<>>, arduino_connected |-> FALSE,
   manual_override |-> FALSE]

Has(obj, key) == key \in DOMAIN obj

\* A merge that appends to the roster instead of replacing it: what C1 rules out.
ObjectAssignConcat(target, source) ==
  [f \in Fields |->
     IF ~Has(source, f) THEN target[f]
     ELSE IF f = "users_in_room" THEN target[f] \o source[f] ELSE source[f]]

\* A merge that resets the fields the partial state leaves out: what C15
\* rules out.
ObjectAssignReplace(target, source) ==
  [f \in Fields |-> IF Has(source, f) THEN source[f] ELSE DefaultSystemState[f]]

\* part_001:27  Object.assign(systemState, newState): every own key of
\* newState overwrites the field of the same name, whole value; the other
\* fields are kept.
ObjectAssign(target, source) ==
  [f \in Fields |-> IF Has(source, f) THEN source[f] ELSE target[f]]


(***************************************************************************)
(* The page.  part_000 is the room-control page of the repository; it has  *)
(* no element with id override-status, override-icon or toggle-override.   *)
(* The script addresses all three, so the model runs it on part_000 as it  *)
(* is (overrideUI = FALSE) and on part_000 extended by the three elements  *)
(* (overrideUI = TRUE, the page spec section 6 describes).                 *)
(***************************************************************************)
\* part_000:10-85, the elements the script reads or writes
RoomPage ==
  [light_status |-> [text |-> "Unknown", class |-> {"status-value"}],
   light_icon |-> "bulb",
   door_status |-> [text |-> "Unknown", class |-> {"status-value"}],
   door_icon |-> "door",
   presence_status |-> [text |-> "Unknown", class |-> {"status-value"}],
   presence_icon |-> "person",
   luminosity_value |-> "Unknown",
   luminosity_icon |-> "sun",
   users_list |-> << [class |-> "no-users", text |-> "No users detected"] >>,
   system_uptime |-> "0s",
   last_update |-> "Never",
   arduino_status |-> [text |-> "Disconnected", class |-> {"stat-value"}],
   override_status |-> [text |-> "", class |-> {"status-value"}],
   override_icon |-> "",
   toggle_override |-> "",
   auto_scroll |-> [text |-> "Auto-scroll: ON", class |-> {"control-btn", "auto-scroll"}]]

\* the log/storage page is not in the repository's sources: the elements
\* dashboard.js addresses, with the texts the script itself restores
LogPage ==
  [uptime |-> "0s",
   total_messages |-> "0",
   messages_today |-> "0",
   last_seen |-> "Never",
   cleanup_logs |-> [text |-> "Clean Old Logs", disabled |-> FALSE],
   auto_scroll |-> [text |-> "Auto-scroll: ON", class |-> {"control-btn", "auto-scroll"}]]

\* part_000:14  <span id="connection-status" class="connection-status disconnected">
ConnectionStatusElement ==
  [text |-> "Connecting...", class |-> {"connection-status", "disconnected"}]

\* part_000:81-83  the console starts with one child, the placeholder line
PlaceholderEntry ==
  [n |-> 0, kind |-> "placeholder", timestamp |-> "", message |-> "Connecting to live data stream...",
   user |-> "", details |-> ""]

(***************************************************************************)
(* Renderers, part_001:44-165.  Each takes the DOM and returns the DOM.    *)
(***************************************************************************)
updateLightStatus(d, s) ==
  IF s.light_state
  THEN [d EXCEPT !.light_status = [text |-> "ON", class |-> {"status-value", "status-on"}],
                 !.light_icon = "bulb"]
  ELSE [d EXCEPT !.light_status = [text |-> "OFF", class |-> {"status-value", "status-off"}],
                 !.light_icon = "dim"]

updateDoorStatus(d, s) ==
  IF s.door_state
  THEN [d EXCEPT !.door_status = [text |-> "OPEN", class |-> {"status-value", "status-active"}],
                 !.door_icon = "door_open"]
  ELSE [d EXCEPT !.door_status = [text |-> "CLOSED", class |-> {"status-value", "status-inactive"}],
                 !.door_icon = "door"]

updatePresenceStatus(d, s) ==
  IF s.user_present
  THEN [d EXCEPT !.presence_status = [text |-> "DETECTED", class |-> {"status-value", "status-active"}],
                 !.presence_icon = "person_check"]
  ELSE [d EXCEPT !.presence_status = [text |-> "NONE", class |-> {"status-value", "status-inactive"}],
                 !.presence_icon = "person"]

\* Thresholds that include their boundary: what C9 rules out.
LuminosityIconGE(luminosity) ==
  IF luminosity >= BrightAbove THEN "sun"
  ELSE IF luminosity >= PartialAbove THEN "sun_cloud"
  ELSE "new_moon"

\* part_001:100-106
LuminosityIcon(luminosity) ==
  IF luminosity > BrightAbove THEN "sun"
  ELSE IF luminosity > PartialAbove THEN "sun_cloud"
  ELSE "new_moon"

updateLuminosityStatus(d, s) ==
  [d EXCEPT !.luminosity_value = ToString(s.luminosity),
            !.luminosity_icon = LuminosityIcon(s.luminosity)]

\* A lookup without the fallback: what C20 rules out.
UserNameNoFallback(dir, userId) ==
  IF userId \in DOMAIN dir THEN dir[userId].name ELSE UNDEFINED

\* part_001:135  users[userId] ? users[userId].name : `User ${userId}`
UserName(dir, userId) ==
  IF userId \in DOMAIN dir THEN dir[userId].name ELSE "User " \o ToString(userId)

\* A roster renderer that does not empty the list first: what C10 rules out.
RosterAppendOnly(d, s, dir) ==
  [d EXCEPT !.users_list =
     IF Len(s.users_in_room) > 0
     THEN @ \o [i \in 1..Len(s.users_in_room) |->
                  [class |-> "user-item", icon |-> "person",
                   name |-> UserName(dir, s.users_in_room[i])]]
     ELSE @ \o << [class |-> "no-users", text |-> "No users detected"] >>]

\* part_001:129-152  the list is emptied, then one item per id, in order
updateUsersInRoom(d, s, dir) ==
  [d EXCEPT !.users_list =
     IF Len(s.users_in_room) > 0
     THEN [i \in 1..Len(s.users_in_room) |->
             [class |-> "user-item", icon |-> "person",
              name |-> UserName(dir, s.users_in_room[i])]]
     ELSE << [class |-> "no-users", text |-> "No users detected"] >>]

\* part_001:155-165  className is assigned, so any class added before is dropped
updateArduinoStatus(d, s) ==
  IF s.arduino_connected
  THEN [d EXCEPT !.arduino_status = [text |-> "Connected", class |-> {"stat-value", "status-on"}]]
  ELSE [d EXCEPT !.arduino_status = [text |-> "Disconnected", class |-> {"stat-value", "status-off"}]]

\* part_001:110-126, on a page that has the three override elements
updateOverrideStatus(d, s) ==
  IF s.manual_override
  THEN [d EXCEPT !.override_status = [text |-> "ON", class |-> {"status-value", "status-on"}],
                 !.override_icon = "unlocked",
                 !.toggle_override = "Disable Override"]
  ELSE [d EXCEPT !.override_status = [text |-> "OFF", class |-> {"status-value", "status-off"}],
                 !.override_icon = "locked",
                 !.toggle_override = "Enable Override"]

\* part_001:30-35, the six renderers that run before updateOverrideStatus
RenderTiles(d, s, dir) ==
  updateArduinoStatus(
    updateUsersInRoom(
      updateLuminosityStatus(
        updatePresenceStatus(
          updateDoorStatus(
            updateLightStatus(d, s), s), s), s), s, dir), s)

(***************************************************************************)
(* updateSystemState, part_001:25-42.  The result is the new RoomState,    *)
(* the new DOM and whether the call threw: on a page without the override  *)
(* elements getElementById returns null at line 111 and line 116 or 121    *)
(* throws a TypeError, after the merge and the first six renderers and     *)
(* before the last-update text.                                            *)
(***************************************************************************)
updateSystemState(s, d, dir, hasOverrideUI, newState) ==
  LET merged == ObjectAssign(s, newState)
      tiles == RenderTiles(d, merged, dir)
  IN IF ~hasOverrideUI
     THEN [state |-> merged, dom |-> tiles, threw |-> TRUE]
     ELSE [state |-> merged,
           dom |-> LET o == updateOverrideStatus(tiles, merged)
                   IN IF Has(newState, "last_update") /\ newState.last_update # NULL
                      THEN [o EXCEPT !.last_update = "Just now"]
                      ELSE o,
           threw |-> FALSE]


(***************************************************************************)
(* The activity log: the children of #console, oldest first.  Each entry   *)
(* carries n, its arrival number (the count of appendChild calls on the    *)
(* console up to and including its own; the placeholder of the markup is   *)
(* entry 0).  n is bookkeeping of the model, not a field of the program.   *)
(***************************************************************************)
\* An eviction that drops the newest entry: what C3 rules out.
RECURSIVE EvictFromNewest(_, _)
EvictFromNewest(children, cap) ==
  IF Len(children) > cap
  THEN EvictFromNewest(SubSeq(children, 1, Len(children) - 1), cap)
  ELSE children

\* part_001:216-218, dashboard.js:120-122
\*   while (children.length > cap) removeChild(firstChild)
\* children counts elements, firstChild may be a whitespace text node of the
\* markup: the loop removes it on its way to the oldest element, so on the
\* elements the effect is that of removing the oldest while over the cap.
RECURSIVE Evict(_, _)
Evict(children, cap) ==
  IF Len(children) > cap THEN Evict(Tail(children), cap) ELSE children

\* part_001:169-206, the element addLogEntry builds.  data is the object
\* literal the caller passes; a key the caller leaves out, or sets to
\* undefined, is absent from data.
logEntry(n, data) ==
  [n |-> n,
   kind |-> IF Has(data, "type") THEN data.type ELSE "info",
   timestamp |-> IF Has(data, "timestamp") THEN data.timestamp ELSE "local time",
   message |-> IF Has(data, "message") THEN data.message ELSE "",
   user |-> IF Has(data, "user") THEN data.user ELSE "",
   details |-> IF Has(data, "details") THEN data.details ELSE ""]

\* part_001:168-219
addLogEntry(children, n, data) ==
  Evict(Append(children, logEntry(n, data)), RoomLogCap)

\* dashboard.js:101-104  {...data.data} without source and status
Rest(payload) == [k \in DOMAIN payload \ {"source", "status"} |-> payload[k]]

\* dashboard.js:82-107, the element built for a message
messageEntry(n, data) ==
  [n |-> n, kind |-> "message",
   timestamp |-> IF Has(data, "timestamp") THEN data.timestamp ELSE "",
   source |-> IF Has(data.data, "source") THEN data.data.source ELSE "unknown",
   status |-> IF Has(data.data, "status") THEN data.data.status ELSE "",
   content |-> Rest(data.data)]

\* An addLogEntry without the early return for stats: what C12 rules out.
addLogEntryLogsStats(children, n, json, data) ==
  IF json = "null"
  THEN [children |-> children, appended |-> 0, threw |-> TRUE]
  ELSE IF json = "object" /\ Has(data, "type") /\ data.type = "message"
  THEN IF ~Has(data, "data")
       THEN [children |-> children, appended |-> 0, threw |-> TRUE]
       ELSE [children |-> Evict(Append(children, messageEntry(n, data)), LogViewCap),
             appended |-> 1, threw |-> FALSE]
  ELSE [children |-> Evict(Append(children, [n |-> n, kind |-> "raw", text |-> data]), LogViewCap),
        appended |-> 1, threw |-> FALSE]

\* dashboard.js:72-123.  json is what JSON.parse produced: "object" (data is
\* the object), "string" or "null".  The result is the new children, how many
\* entries were appended and whether the call threw a TypeError (data is
\* null at line 76, or data.data is undefined at line 89).
addLogEntryLogView(children, n, json, data) ==
  IF json = "null"
  THEN [children |-> children, appended |-> 0, threw |-> TRUE]
  ELSE IF json = "string"
  THEN [children |-> Evict(Append(children, [n |-> n, kind |-> "raw", text |-> data]), LogViewCap),
        appended |-> 1, threw |-> FALSE]
  ELSE IF Has(data, "type") /\ data.type = "stats"
  THEN [children |-> children, appended |-> 0, threw |-> FALSE]
  ELSE IF Has(data, "type") /\ data.type = "message"
  THEN IF ~Has(data, "data")
       THEN [children |-> children, appended |-> 0, threw |-> TRUE]
       ELSE [children |-> Evict(Append(children, messageEntry(n, data)), LogViewCap),
             appended |-> 1, threw |-> FALSE]
  ELSE [children |-> Evict(Append(children, [n |-> n, kind |-> "raw", text |-> data]), LogViewCap),
        appended |-> 1, threw |-> FALSE]

(***************************************************************************)
(* connectToEventSource, part_001:222-227 and dashboard.js:28-33.          *)
(* handles is every EventSource the session has created, in creation       *)
(* order, by readyState; eventSource is the index of the one the variable  *)
(* refers to (0: undefined).                                               *)
(***************************************************************************)
\* A connect that leaves the previous handle open: what C5 rules out.
connectWithoutClose(hs, es) ==
  [handles |-> Append(hs, CONNECTING), eventSource |-> Len(hs) + 1]

\* part_001:222-227, dashboard.js:28-33
connectToEventSource(hs, es) ==
  [handles |-> Append(IF es # 0 THEN [hs EXCEPT ![es] = CLOSED] ELSE hs, CONNECTING),
   eventSource |-> Len(hs) + 1]

\* part_001:231-233, dashboard.js:37-39
onopenStatus(el) ==
  [text |-> "Connected", class |-> (el.class \ {"disconnected"}) \cup {"connected"}]

\* An error handler that changes the text and leaves the class: what C4 rules out.
onerrorStatusTextOnly(el) ==
  [text |-> "Disconnected", class |-> el.class]

\* part_001:284-286, dashboard.js:62-64
onerrorStatus(el) ==
  [text |-> "Disconnected", class |-> (el.class \ {"connected"}) \cup {"disconnected"}]


(***************************************************************************)
(* Inputs: what the backend sends.                                         *)
(***************************************************************************)
PartialStates ==
  { [light_state |-> TRUE, luminosity |-> 701, last_update |-> "t1"],
    [light_state |-> FALSE, luminosity |-> 300, users_in_room |-> <<1, 2>>],
    [luminosity |-> 700, users_in_room |-> <<>>, arduino_connected |-> TRUE,
     manual_override |-> TRUE],
    [luminosity |-> 301, door_state |-> TRUE, user_present |-> TRUE,
     detected_user |-> "Ana", users_in_room |-> <<2>>] }

\* A stream frame is its text as JSON.parse sees it: json = "invalid" (not
\* JSON, parse throws a SyntaxError), "null", "string", or "object" with the
\* decoded object in data; for the other three data holds the frame's text.
InvalidFrame == [json |-> "invalid", data |-> [text |-> "<html>502 Bad Gateway"]]
NullFrame == [json |-> "null", data |-> [text |-> "null"]]
StringFrame == [json |-> "string", data |-> [text |-> "hello"]]
ObjectFrame(obj) == [json |-> "object", data |-> obj]

RoomFrames ==
  {InvalidFrame, NullFrame}
  \cup {ObjectFrame([type |-> "initial_state", system_state |-> p]) :
          p \in {q \in PartialStates : Has(q, "last_update") \/ Has(q, "arduino_connected")}}
  \cup {ObjectFrame([type |-> "update", timestamp |-> "10:00:00", system_state |-> p,
                     data |-> "{sensor}"]) : p \in PartialStates}
  \cup {ObjectFrame([type |-> "update"]),
        ObjectFrame([type |-> "welcome", timestamp |-> "10:00:01", user_name |-> "Ana"]),
        ObjectFrame([type |-> "override", timestamp |-> "10:00:02", enabled |-> TRUE]),
        ObjectFrame([type |-> "override", enabled |-> FALSE]),
        ObjectFrame([type |-> "stats", stats |-> [total_messages |-> 7]]),
        ObjectFrame([type |-> "ping"])}

LogViewFrames ==
  {InvalidFrame, NullFrame, StringFrame,
   ObjectFrame([type |-> "message", timestamp |-> "10:00:00",
                data |-> [source |-> "arduino", status |-> "ok", value |-> 1]]),
   ObjectFrame([type |-> "message", timestamp |-> "10:00:01", data |-> [value |-> 2]]),
   ObjectFrame([type |-> "message", timestamp |-> "10:00:02"]),
   ObjectFrame([type |-> "stats",
                stats |-> [total_messages |-> 7, messages_today |-> 3, last_seen |-> "t1"]]),
   ObjectFrame([type |-> "stats"]),
   ObjectFrame([type |-> "welcome", user_name |-> "Ana"]),
   ObjectFrame([value |-> 3])}

\* A fetch settles with a decoded body (ok) or rejects (network error, or a
\* body that is not JSON): error is the Error's message.
Rejected == [ok |-> FALSE, error |-> "Failed to fetch"]

CommandResponses ==
  {Rejected,
   [ok |-> TRUE, data |-> [status |-> "success"]],
   [ok |-> TRUE, data |-> [status |-> "error", message |-> "denied"]]}
  \cup {[ok |-> TRUE, data |-> [status |-> "success", state |-> p]] :
          p \in {q \in PartialStates : Has(q, "last_update") \/ Has(q, "manual_override")}}
  \cup {[ok |-> TRUE, data |-> [status |-> "error", message |-> "busy", state |-> p]] :
          p \in {q \in PartialStates : Has(q, "manual_override")}}

UsersResponses ==
  {Rejected,
   [ok |-> TRUE, data |-> [i \in {1} |-> [name |-> "Ana"]]],
   [ok |-> TRUE, data |-> [i \in {1, 2} |-> [name |-> IF i = 1 THEN "Ana" ELSE "Bia"]]]}

(***************************************************************************)
(* State.                                                                  *)
(***************************************************************************)
VARIABLES
  errored,           \* bookkeeping: the handles whose onerror has run
  clock,             \* whole seconds since startTime (part_001:5, dashboard.js:4)
  page,              \* "room": part_000; "room+override": part_000 with the three
                     \* override elements; "log": the log/storage page
  pc,                \* "parsed": script evaluated, DOMContentLoaded pending;
                     \* "ready": its handler ran to the end; "aborted": it threw
  systemState,       \* part_001:9-19
  users,             \* part_001:22
  dom,               \* the texts and classes the script writes
  consoleElement,    \* the children of #console
  autoScroll,        \* part_001:2, dashboard.js:2
  connectionStatus,  \* the #connection-status element
  eventSource,       \* part_001:3, dashboard.js:3
  handles,           \* every EventSource created, by readyState
  timers,            \* pending setTimeout(connectToEventSource, 5000): seconds elapsed
  requests,          \* fetches in flight, in the order they were sent
  diagnostics,       \* console.error records, oldest first
  inputs,            \* inputs consumed so far (bounds the exploration)
  arrivals,          \* appendChild calls on the console so far
  base,              \* arrival number of the newest entry removed by the last clear
  direct,            \* entries appended since the last clear without addLogEntry
  lastSet,           \* per field, the value the last initial_state/update gave it
  otherWrites        \* RoomState was written by something else than those events

vars ==
  <<clock, errored, page, pc, systemState, users, dom, consoleElement, autoScroll, connectionStatus,
    eventSource, handles, timers, requests, diagnostics, inputs, arrivals, base,
    direct, lastSet, otherWrites>>

RoomView == page \in {"room", "room+override"}
LogView == page = "log"
HasOverrideUI == page = "room+override"

Init ==
  /\ clock = 0
  /\ errored = {}
  /\ page \in {"room", "room+override", "log"}
  /\ pc = "parsed"
  /\ systemState = DefaultSystemState
  /\ users = <<>>
  /\ dom = IF page = "log" THEN LogPage ELSE RoomPage
  /\ consoleElement = IF page = "log" THEN <<>> ELSE <<PlaceholderEntry>>
  /\ autoScroll = TRUE
  /\ connectionStatus = ConnectionStatusElement
  /\ eventSource = 0
  /\ handles = <<>>
  /\ timers = <<>>
  /\ requests = <<>>
  /\ diagnostics = <<>>
  /\ inputs = 0
  /\ arrivals = 0
  /\ base = -1
  /\ direct = 0
  /\ lastSet = [f \in Fields |-> [set |-> FALSE]]
  /\ otherWrites = FALSE

(***************************************************************************)
(* Page load: the DOMContentLoaded handler.                                *)
(***************************************************************************)
\* part_001:425-468.  Line 455 reads #toggle-override; on part_000 it is null
\* and addEventListener throws: the listeners of lines 431-452 stay, lines
\* 458-467 do not run.
DOMContentLoadedRoom ==
  /\ RoomView /\ pc = "parsed"
  /\ IF ~HasOverrideUI
     THEN /\ pc' = "aborted"
          /\ UNCHANGED <<eventSource, handles, requests, consoleElement, arrivals>>
     ELSE LET c == connectToEventSource(handles, eventSource)
          IN /\ pc' = "ready"
             /\ handles' = c.handles
             /\ eventSource' = c.eventSource
             /\ requests' = Append(requests, [kind |-> "users"])
             /\ consoleElement' =
                  addLogEntry(consoleElement, arrivals + 1,
                              [type |-> "info", message |-> "Smart Room Dashboard initialized"])
             /\ arrivals' = arrivals + 1
  /\ UNCHANGED <<clock, errored, page, systemState, users, dom, autoScroll, connectionStatus, timers,
                 diagnostics, inputs, base, direct, lastSet, otherWrites>>

\* dashboard.js:175-294
DOMContentLoadedLogView ==
  /\ LogView /\ pc = "parsed"
  /\ LET c == connectToEventSource(handles, eventSource)
     IN /\ pc' = "ready"
        /\ handles' = c.handles
        /\ eventSource' = c.eventSource
        /\ requests' = requests \o <<[kind |-> "stats"], [kind |-> "init-data"]>>
  /\ UNCHANGED <<clock, errored, page, systemState, users, dom, consoleElement, autoScroll,
                 connectionStatus, timers, diagnostics, inputs, arrivals, base, direct,
                 lastSet, otherWrites>>

(***************************************************************************)
(* Stream lifecycle.  An EventSource fires open when it connects, error    *)
(* when the connection fails or drops (the browser then retries by itself, *)
(* readyState CONNECTING, or gives up, readyState CLOSED), and nothing     *)
(* once it is closed.  The handlers are attached to every handle.          *)
(***************************************************************************)
\* part_001:229-234, dashboard.js:35-40
StreamOpen(h) ==
  /\ handles[h] = CONNECTING
  /\ handles' = [handles EXCEPT ![h] = OPEN]
  /\ connectionStatus' = onopenStatus(connectionStatus)
  /\ UNCHANGED <<clock, errored, page, pc, systemState, users, dom, consoleElement, autoScroll,
                 eventSource, timers, requests, diagnostics, inputs, arrivals, base,
                 direct, lastSet, otherWrites>>

\* part_001:282-294, dashboard.js:60-68
StreamError(h, fatal) ==
  /\ handles[h] # CLOSED
  /\ inputs < MaxInputs
  /\ inputs' = inputs + 1
  /\ handles' = [handles EXCEPT ![h] = IF fatal THEN CLOSED ELSE CONNECTING]
  /\ connectionStatus' = onerrorStatus(connectionStatus)
  /\ dom' = IF RoomView
            THEN [dom EXCEPT !.arduino_status =
                    [text |-> "Disconnected", class |-> @.class \cup {"error-state"}]]
            ELSE dom
  /\ timers' = Append(timers, 0)
  /\ errored' = errored \cup {h}
  /\ UNCHANGED <<clock, page, pc, systemState, users, consoleElement, autoScroll, eventSource,
                 requests, diagnostics, arrivals, base, direct, lastSet, otherWrites>>

\* A reconnect that puts the status element back to "Connecting...": what
\* C18 rules out.
ReconnectTimerShowsConnecting ==
  /\ timers # <<>>
  /\ Head(timers) >= ReconnectDelay
  /\ Len(handles) < MaxHandles
  /\ LET c == connectToEventSource(handles, eventSource)
     IN /\ handles' = c.handles
        /\ eventSource' = c.eventSource
  /\ timers' = Tail(timers)
  /\ connectionStatus' = [connectionStatus EXCEPT !.text = "Connecting..."]
  /\ UNCHANGED <<clock, errored, page, pc, systemState, users, dom, consoleElement, autoScroll,
                 requests, diagnostics, inputs, arrivals, base, direct, lastSet,
                 otherWrites>>

\* A reconnect that gives up after the first retry, its timer firing without
\* a call: what C17 rules out.
ReconnectTimerGivesUp ==
  /\ timers # <<>>
  /\ Head(timers) >= ReconnectDelay
  /\ Len(handles) < MaxHandles
  /\ IF Len(handles) < 2
     THEN LET c == connectToEventSource(handles, eventSource)
          IN /\ handles' = c.handles
             /\ eventSource' = c.eventSource
     ELSE UNCHANGED <<handles, eventSource>>
  /\ timers' = Tail(timers)
  /\ UNCHANGED <<clock, errored, page, pc, systemState, users, dom, consoleElement, autoScroll,
                 connectionStatus, requests, diagnostics, inputs, arrivals, base,
                 direct, lastSet, otherWrites>>

\* the reconnect timer fires: part_001:293, dashboard.js:67.  Timers of equal
\* delay fire in the order they were set, so the oldest is the head.
ReconnectTimer ==
  /\ timers # <<>>
  /\ Head(timers) >= ReconnectDelay
  /\ Len(handles) < MaxHandles
  /\ LET c == connectToEventSource(handles, eventSource)
     IN /\ handles' = c.handles
        /\ eventSource' = c.eventSource
  /\ timers' = Tail(timers)
  /\ UNCHANGED <<clock, errored, page, pc, systemState, users, dom, consoleElement, autoScroll,
                 connectionStatus, requests, diagnostics, inputs, arrivals, base,
                 direct, lastSet, otherWrites>>

\* part_001:387-397, dashboard.js:10-22: the uptime text for a whole number
\* of seconds
UptimeText(diffSeconds) ==
  LET days    == diffSeconds \div 86400
      hours   == (diffSeconds % 86400) \div 3600
      minutes == (diffSeconds % 3600) \div 60
      seconds == diffSeconds % 60
  IN (IF days > 0 THEN ToString(days) \o "d " ELSE "")
     \o (IF hours > 0 \/ days > 0 THEN ToString(hours) \o "h " ELSE "")
     \o (IF minutes > 0 \/ hours > 0 \/ days > 0 THEN ToString(minutes) \o "m " ELSE "")
     \o ToString(seconds) \o "s"

\* One second passes and the setInterval callback runs: part_001:386-422,
\* dashboard.js:9-25.  It writes the uptime text; in the room view the
\* last-update text becomes relative once RoomState has a last_update.
Tick ==
  /\ \/ clock < MaxUptime
     \/ \E i \in 1..Len(timers) : timers[i] < ReconnectDelay
  /\ clock' = clock + 1
  /\ timers' = [i \in 1..Len(timers) |-> Min(timers[i] + 1, ReconnectDelay)]
  /\ dom' = IF RoomView
            THEN IF systemState.last_update # NULL
                 THEN [dom EXCEPT !.system_uptime = UptimeText(clock + 1),
                                  !.last_update = "ago"]
                 ELSE [dom EXCEPT !.system_uptime = UptimeText(clock + 1)]
            ELSE [dom EXCEPT !.uptime = UptimeText(clock + 1)]
  /\ UNCHANGED <<errored, page, pc, systemState, users, consoleElement, autoScroll,
                 connectionStatus, eventSource, handles, requests, diagnostics, inputs,
                 arrivals, base, direct, lastSet, otherWrites>>

(***************************************************************************)
(* Log controls.                                                           *)
(***************************************************************************)
\* A clear that keeps the newest entry: what C19 rules out.
ClearLogKeepsNewest ==
  /\ pc # "parsed"
  /\ inputs < MaxInputs
  /\ inputs' = inputs + 1
  /\ consoleElement' = IF consoleElement = <<>> THEN <<>>
                       ELSE <<consoleElement[Len(consoleElement)]>>
  /\ base' = arrivals
  /\ direct' = 0
  /\ UNCHANGED <<clock, errored, page, pc, systemState, users, dom, autoScroll, connectionStatus,
                 eventSource, handles, timers, requests, diagnostics, arrivals,
                 lastSet, otherWrites>>

\* part_001:431-433, dashboard.js:182-184
ClearLog ==
  /\ pc # "parsed"
  /\ inputs < MaxInputs
  /\ inputs' = inputs + 1
  /\ consoleElement' = <<>>
  /\ base' = arrivals
  /\ direct' = 0
  /\ UNCHANGED <<clock, errored, page, pc, systemState, users, dom, autoScroll, connectionStatus,
                 eventSource, handles, timers, requests, diagnostics, arrivals,
                 lastSet, otherWrites>>

\* part_001:435-443, dashboard.js:186-194
ToggleAutoScroll ==
  /\ pc # "parsed"
  /\ inputs < MaxInputs
  /\ inputs' = inputs + 1
  /\ autoScroll' = ~autoScroll
  /\ dom' = [dom EXCEPT !.auto_scroll =
               [text |-> IF autoScroll' THEN "Auto-scroll: ON" ELSE "Auto-scroll: OFF",
                class |-> IF autoScroll' THEN @.class \ {"disabled"}
                          ELSE @.class \cup {"disabled"}]]
  /\ UNCHANGED <<clock, errored, page, pc, systemState, users, consoleElement, connectionStatus,
                 eventSource, handles, timers, requests, diagnostics, arrivals, base,
                 direct, lastSet, otherWrites>>


(***************************************************************************)
(* Room-control view: stream messages, part_001:236-280.                   *)
(***************************************************************************)
\* an object literal's key whose value is undefined is left out
WithKey(obj, key, src, srcKey) ==
  IF Has(src, srcKey) THEN (key :> src[srcKey]) @@ obj ELSE obj

RemoveAt(seq, i) == SubSeq(seq, 1, i - 1) \o SubSeq(seq, i + 1, Len(seq))

\* A welcome entry without the user badge: what C14 rules out.
welcomeDataNoUser(data) ==
  WithKey([type |-> "welcome",
           message |-> "Welcome "
             \o (IF Has(data, "user_name") THEN data.user_name ELSE UNDEFINED) \o "!"],
          "timestamp", data, "timestamp")

\* part_001:258-263, the object the welcome branch passes to addLogEntry
welcomeData(data) ==
  WithKey(WithKey([type |-> "welcome",
                   message |-> "Welcome "
                     \o (IF Has(data, "user_name") THEN data.user_name
                         ELSE UNDEFINED) \o "!"],
                  "timestamp", data, "timestamp"),
          "user", data, "user_name")

\* An override branch that flips the flag instead of assigning it: what C13
\* rules out.
flipManualOverride(s, enabled) == [s EXCEPT !.manual_override = ~@]

\* part_001:274  systemState.manual_override = data.enabled
setManualOverride(s, enabled) == [s EXCEPT !.manual_override = enabled]

\* A catch block that also writes to the activity log: what C6 rules out.
onmessageCatchLogsEntry(sofar, errorName) ==
  [sofar EXCEPT
     !.children = addLogEntry(sofar.children, arrivals + sofar.appended + 1,
                    [type |-> "error", message |-> "Error parsing event data"]),
     !.appended = @ + 1,
     !.errors = <<"Error parsing event data: " \o errorName>>]

\* part_001:277-279, the catch block: one console.error record, nothing else.
\* sofar is what the try block did before it threw.
onmessageCatch(sofar, errorName) ==
  [sofar EXCEPT !.errors = <<"Error parsing event data: " \o errorName>>]

\* What one call of onmessage does to RoomState, the DOM and the console:
\* appended is the number of entries it appended, errors the console.error
\* records of its catch block.
roomOnMessage(frame) ==
  LET same == [state |-> systemState, dom |-> dom, children |-> consoleElement,
               appended |-> 0, errors |-> <<>>]
  IN IF frame.json = "invalid"
     THEN onmessageCatch(same, "SyntaxError")
     ELSE IF frame.json = "null"
     THEN onmessageCatch(same, "TypeError")
     ELSE IF frame.json # "object"
     THEN same
     ELSE
       LET data == frame.data
           type == IF Has(data, "type") THEN data.type ELSE UNDEFINED
       IN IF type \in {"initial_state", "update"}
          THEN LET r == IF Has(data, "system_state")
                        THEN updateSystemState(systemState, dom, users, HasOverrideUI,
                                               data.system_state)
                        ELSE [state |-> systemState, dom |-> dom, threw |-> FALSE]
                   merged == [same EXCEPT !.state = r.state, !.dom = r.dom]
               IN IF r.threw
                  THEN onmessageCatch(merged, "TypeError")
                  ELSE IF type = "update"
                  THEN [merged EXCEPT
                          !.children =
                            addLogEntry(consoleElement, arrivals + 1,
                              WithKey(WithKey([type |-> "update",
                                               message |-> "System state updated"],
                                              "timestamp", data, "timestamp"),
                                      "details", data, "data")),
                          !.appended = 1]
                  ELSE merged
          ELSE IF type = "welcome"
          THEN [same EXCEPT
                  !.children =
                    addLogEntry(consoleElement, arrivals + 1, welcomeData(data)),
                  !.appended = 1]
          ELSE IF type = "override"
          THEN LET logged ==
                     [same EXCEPT
                        !.children =
                          addLogEntry(consoleElement, arrivals + 1,
                            WithKey([type |-> "control",
                                     message |-> IF data.enabled
                                                 THEN "Manual override enabled"
                                                 ELSE "Manual override disabled",
                                     details |-> IF data.enabled THEN "{enabled: true}"
                                                 ELSE "{enabled: false}"],
                                    "timestamp", data, "timestamp")),
                        !.appended = 1,
                        !.state = setManualOverride(systemState, data.enabled)]
               IN IF HasOverrideUI
                  THEN [logged EXCEPT !.dom = updateOverrideStatus(dom, logged.state)]
                  ELSE onmessageCatch(logged, "TypeError")
          ELSE same

IsStateEvent(frame) ==
  /\ frame.json = "object"
  /\ Has(frame.data, "type") /\ frame.data.type \in {"initial_state", "update"}
  /\ Has(frame.data, "system_state")

IsOverrideEvent(frame) ==
  frame.json = "object" /\ Has(frame.data, "type") /\ frame.data.type = "override"

RoomMessage(h, frame) ==
  /\ RoomView
  /\ handles[h] = OPEN
  /\ inputs < MaxInputs
  /\ inputs' = inputs + 1
  /\ LET r == roomOnMessage(frame)
     IN /\ systemState' = r.state
        /\ dom' = r.dom
        /\ consoleElement' = r.children
        /\ arrivals' = arrivals + r.appended
        /\ diagnostics' = diagnostics \o r.errors
  /\ lastSet' = IF IsStateEvent(frame)
                THEN [f \in Fields |->
                        IF Has(frame.data.system_state, f)
                        THEN [set |-> TRUE, value |-> frame.data.system_state[f]]
                        ELSE lastSet[f]]
                ELSE lastSet
  /\ otherWrites' = (otherWrites \/ IsOverrideEvent(frame))
  /\ UNCHANGED <<clock, errored, page, pc, users, autoScroll, connectionStatus, eventSource, handles,
                 timers, requests, base, direct>>

(***************************************************************************)
(* Room-control view: the user directory and the two commands.             *)
(***************************************************************************)
\* A directory fetch that stores the directory without rendering the roster
\* again: what C27 rules out.
UsersResponseNoRender(i, resp) ==
  /\ RoomView
  /\ i \in 1..Len(requests) /\ requests[i].kind = "users"
  /\ requests' = RemoveAt(requests, i)
  /\ IF resp.ok
     THEN /\ users' = resp.data
          /\ UNCHANGED <<dom, diagnostics>>
     ELSE /\ diagnostics' = Append(diagnostics, "Error fetching users: " \o resp.error)
          /\ UNCHANGED <<users, dom>>
  /\ UNCHANGED <<clock, errored, page, pc, systemState, consoleElement, autoScroll, connectionStatus,
                 eventSource, handles, timers, inputs, arrivals, base, direct, lastSet,
                 otherWrites>>

\* part_001:298-306
UsersResponse(i, resp) ==
  /\ RoomView
  /\ i \in 1..Len(requests) /\ requests[i].kind = "users"
  /\ requests' = RemoveAt(requests, i)
  /\ IF resp.ok
     THEN /\ users' = resp.data
          /\ dom' = updateUsersInRoom(dom, systemState, resp.data)
          /\ UNCHANGED diagnostics
     ELSE /\ diagnostics' = Append(diagnostics, "Error fetching users: " \o resp.error)
          /\ UNCHANGED <<users, dom>>
  /\ UNCHANGED <<clock, errored, page, pc, systemState, consoleElement, autoScroll, connectionStatus,
                 eventSource, handles, timers, inputs, arrivals, base, direct, lastSet,
                 otherWrites>>

\* part_001:309-319 (the click listeners are those of lines 446-452).  issued
\* is bookkeeping of the model: the number of the input that sent the request.
ClickLight(command) ==
  /\ RoomView /\ pc # "parsed"
  /\ inputs < MaxInputs
  /\ inputs' = inputs + 1
  /\ requests' = Append(requests, [kind |-> "light", command |-> command,
                                   override |-> systemState.manual_override,
                                   issued |-> inputs + 1])
  /\ UNCHANGED <<clock, errored, page, pc, systemState, users, dom, consoleElement, autoScroll,
                 connectionStatus, eventSource, handles, timers, diagnostics,
                 arrivals, base, direct, lastSet, otherWrites>>

\* A toggle that alternates with the request still in flight instead of
\* reading RoomState: what C24 rules out.
ClickToggleOverrideAlternates ==
  /\ RoomView /\ pc = "ready"
  /\ inputs < MaxInputs
  /\ inputs' = inputs + 1
  /\ LET pending == SelectSeq(requests, LAMBDA r : r.kind = "override")
     IN requests' = Append(requests,
                      [kind |-> "override",
                       enable |-> IF pending = <<>> THEN ~systemState.manual_override
                                  ELSE ~pending[Len(pending)].enable,
                       issued |-> inputs + 1])
  /\ UNCHANGED <<clock, errored, page, pc, systemState, users, dom, consoleElement, autoScroll,
                 connectionStatus, eventSource, handles, timers, diagnostics,
                 arrivals, base, direct, lastSet, otherWrites>>

\* part_001:348-357 (the click listener is that of line 455)
ClickToggleOverride ==
  /\ RoomView /\ pc = "ready"
  /\ inputs < MaxInputs
  /\ inputs' = inputs + 1
  /\ requests' = Append(requests, [kind |-> "override",
                                   enable |-> ~systemState.manual_override,
                                   issued |-> inputs + 1])
  /\ UNCHANGED <<clock, errored, page, pc, systemState, users, dom, consoleElement, autoScroll,
                 connectionStatus, eventSource, handles, timers, diagnostics,
                 arrivals, base, direct, lastSet, otherWrites>>

\* The two promise chains have the same shape (part_001:320-344, 358-382):
\* okMessage, failPrefix and errorPrefix are the texts of the command.  Each
\* part returns what it did to RoomState, the DOM and the console.
Settled ==
  [state |-> systemState, dom |-> dom, children |-> consoleElement,
   appended |-> 0, errors |-> <<>>, merged |-> FALSE]

\* part_001:338-344, 376-382  the catch block: the fetch rejected
commandRejected(errorPrefix, error) ==
  [Settled EXCEPT
     !.children = addLogEntry(consoleElement, arrivals + 1,
                    [type |-> "error", message |-> errorPrefix \o error]),
     !.appended = 1,
     !.errors = <<errorPrefix \o error>>]

\* A failure branch that merges the state of the response: what C8 rules out.
commandFailedMergesState(failPrefix, data) ==
  LET r == IF Has(data, "state")
           THEN updateSystemState(systemState, dom, users, TRUE, data.state)
           ELSE [state |-> systemState, dom |-> dom]
  IN [Settled EXCEPT
        !.state = r.state,
        !.dom = r.dom,
        !.children = addLogEntry(consoleElement, arrivals + 1,
                       [type |-> "error",
                        message |-> failPrefix
                          \o (IF Has(data, "message") THEN data.message ELSE UNDEFINED)]),
        !.appended = 1]

\* part_001:331-336, 369-374  the else branch: status is not "success"
commandFailed(failPrefix, data) ==
  [Settled EXCEPT
     !.children = addLogEntry(consoleElement, arrivals + 1,
                    [type |-> "error",
                     message |-> failPrefix
                       \o (IF Has(data, "message") THEN data.message ELSE UNDEFINED)]),
     !.appended = 1]

\* part_001:322-330, 360-368  status is "success"; a throw inside
\* updateSystemState lands in the catch block of lines 338-344, 376-382
commandSucceeded(okMessage, errorPrefix, data) ==
  LET logged == addLogEntry(consoleElement, arrivals + 1,
                            [type |-> "control", message |-> okMessage])
  IN IF ~Has(data, "state")
     THEN [Settled EXCEPT !.children = logged, !.appended = 1]
     ELSE LET r == updateSystemState(systemState, dom, users, HasOverrideUI, data.state)
          IN IF r.threw
             THEN [state |-> r.state, dom |-> r.dom,
                   children |-> addLogEntry(logged, arrivals + 2,
                                  [type |-> "error",
                                   message |-> errorPrefix \o "TypeError"]),
                   appended |-> 2,
                   errors |-> <<errorPrefix \o "TypeError">>,
                   merged |-> TRUE]
             ELSE [state |-> r.state, dom |-> r.dom, children |-> logged,
                   appended |-> 1, errors |-> <<>>, merged |-> TRUE]

commandSettled(resp, okMessage, failPrefix, errorPrefix) ==
  IF ~resp.ok THEN commandRejected(errorPrefix, resp.error)
  ELSE IF resp.data.status = "success"
  THEN commandSucceeded(okMessage, errorPrefix, resp.data)
  ELSE commandFailed(failPrefix, resp.data)

\* A client that drops the state of a response that overtakes an older
\* request: what C16 rules out.
ApplySettledInOrder(i, r) ==
  /\ requests' = RemoveAt(requests, i)
  /\ systemState' = IF i = 1 THEN r.state ELSE systemState
  /\ dom' = IF i = 1 THEN r.dom ELSE dom
  /\ consoleElement' = r.children
  /\ arrivals' = arrivals + r.appended
  /\ diagnostics' = diagnostics \o r.errors
  /\ otherWrites' = (otherWrites \/ r.merged)
  /\ UNCHANGED <<clock, errored, page, pc, users, autoScroll, connectionStatus, eventSource, handles,
                 timers, inputs, base, direct, lastSet>>

\* A client that sends the request again when its chain ended in an error:
\* what C21 rules out.
ApplySettledRetries(i, r) ==
  /\ requests' = IF ~r.merged /\ r.children # <<>>
                     /\ r.children[Len(r.children)].kind = "error"
                  THEN Append(RemoveAt(requests, i), requests[i])
                  ELSE RemoveAt(requests, i)
  /\ systemState' = r.state
  /\ dom' = r.dom
  /\ consoleElement' = r.children
  /\ arrivals' = arrivals + r.appended
  /\ diagnostics' = diagnostics \o r.errors
  /\ otherWrites' = (otherWrites \/ r.merged)
  /\ UNCHANGED <<clock, errored, page, pc, users, autoScroll, connectionStatus, eventSource, handles,
                 timers, inputs, base, direct, lastSet>>

\* the effects of a settled promise chain; the chain of request i runs when
\* its response arrives, whatever else is still in flight
ApplySettled(i, r) ==
  /\ requests' = RemoveAt(requests, i)
  /\ systemState' = r.state
  /\ dom' = r.dom
  /\ consoleElement' = r.children
  /\ arrivals' = arrivals + r.appended
  /\ diagnostics' = diagnostics \o r.errors
  /\ otherWrites' = (otherWrites \/ r.merged)
  /\ UNCHANGED <<clock, errored, page, pc, users, autoScroll, connectionStatus, eventSource, handles,
                 timers, inputs, base, direct, lastSet>>

\* part_001:320-344
LightResponse(i, resp) ==
  /\ RoomView
  /\ i \in 1..Len(requests) /\ requests[i].kind = "light"
  /\ ApplySettled(i,
       commandSettled(resp,
         "Light turned " \o requests[i].command \o " successfully",
         "Failed to turn " \o requests[i].command \o " light: ",
         "Error controlling light: "))

\* part_001:358-382
OverrideResponse(i, resp) ==
  /\ RoomView
  /\ i \in 1..Len(requests) /\ requests[i].kind = "override"
  /\ ApplySettled(i,
       commandSettled(resp,
         IF requests[i].enable THEN "Manual override enabled"
         ELSE "Manual override disabled",
         "Failed to toggle override: ",
         "Error toggling override: "))


(***************************************************************************)
(* Log/storage view, dashboard.js.                                         *)
(***************************************************************************)
StatsResponses ==
  {Rejected,
   [ok |-> TRUE, data |-> [uptime_stats |-> [total_messages |-> 9, last_seen |-> "t2"],
                           total_messages_today |-> 4]],
   [ok |-> TRUE, data |-> [total_messages_today |-> 4]]}

StoredMessage ==
  [type |-> "message", timestamp |-> "09:00:00",
   data |-> [source |-> "arduino", status |-> "ok", value |-> 1]]

InitDataResponses ==
  {Rejected,
   [ok |-> TRUE, data |-> [count |-> 0]],
   [ok |-> TRUE, data |-> [messages |-> <<StoredMessage, [type |-> "welcome"]>>]],
   [ok |-> TRUE, data |-> [messages |-> <<[type |-> "stats"], StoredMessage,
                                          [type |-> "message", timestamp |-> "09:00:01"],
                                          StoredMessage>>]]}

CleanupResponses ==
  {Rejected,
   [ok |-> TRUE, data |-> [error |-> "disk busy"]],
   [ok |-> TRUE, data |-> [files_deleted |-> 2, space_freed_mb |-> 1, forced |-> TRUE,
                           force_cleanup |-> TRUE]],
   [ok |-> TRUE, data |-> [files_deleted |-> 0, space_freed_mb |-> 0]],
   [ok |-> TRUE, data |-> [status |-> "ok"]]}

StorageFields ==
  {"data_dir_size_mb", "data_dir_file_count", "disk_used_percent", "disk_total_mb",
   "disk_free_mb", "max_log_size_mb", "max_days_to_keep"}

StorageResponses ==
  {Rejected,
   [ok |-> TRUE, data |-> [f \in StorageFields |-> 1]],
   [ok |-> TRUE, data |-> [data_dir_size_mb |-> 1, disk_used_percent |-> 1,
                           disk_total_mb |-> 1, disk_free_mb |-> 1]],
   [ok |-> TRUE, data |-> [error |-> "unavailable"]]}

\* dashboard.js:126-155.  x || 0 shows 0 for an absent or zero count.
updateStats(d, hasStats, stats) ==
  IF ~hasStats THEN d
  ELSE LET counts ==
             [d EXCEPT
                !.total_messages = IF Has(stats, "total_messages")
                                   THEN ToString(stats.total_messages) ELSE "0",
                !.messages_today = IF Has(stats, "messages_today")
                                   THEN ToString(stats.messages_today) ELSE "0"]
       IN IF Has(stats, "last_seen") THEN [counts EXCEPT !.last_seen = "ago"] ELSE counts

\* dashboard.js:42-58
LogViewMessage(h, frame) ==
  /\ LogView
  /\ handles[h] = OPEN
  /\ inputs < MaxInputs
  /\ inputs' = inputs + 1
  /\ IF frame.json = "invalid"
     THEN /\ diagnostics' = diagnostics \o <<"Error parsing event data: SyntaxError",
                                             "Raw event data">>
          /\ UNCHANGED <<consoleElement, arrivals, dom>>
     ELSE LET r == addLogEntryLogView(consoleElement, arrivals + 1, frame.json, frame.data)
          IN /\ consoleElement' = r.children
             /\ arrivals' = arrivals + r.appended
             /\ IF r.threw
                THEN /\ diagnostics' = diagnostics \o <<"Error parsing event data: TypeError",
                                                        "Raw event data">>
                     /\ UNCHANGED dom
                ELSE /\ UNCHANGED diagnostics
                     /\ dom' = IF frame.json = "object" /\ Has(frame.data, "type")
                                  /\ frame.data.type = "stats"
                               THEN updateStats(dom, Has(frame.data, "stats"),
                                                IF Has(frame.data, "stats")
                                                THEN frame.data.stats ELSE <<>>)
                               ELSE dom
  /\ UNCHANGED <<clock, errored, page, pc, systemState, users, autoScroll, connectionStatus,
                 eventSource, handles, timers, requests, base, direct, lastSet,
                 otherWrites>>

\* dashboard.js:158-160: the refresh-stats click (line 196) and the
\* one-minute interval (line 282) both call fetchStats
FetchStats ==
  /\ LogView /\ pc = "ready"
  /\ inputs < MaxInputs
  /\ inputs' = inputs + 1
  /\ requests' = Append(requests, [kind |-> "stats"])
  /\ UNCHANGED <<clock, errored, page, pc, systemState, users, dom, consoleElement, autoScroll,
                 connectionStatus, eventSource, handles, timers, diagnostics,
                 arrivals, base, direct, lastSet, otherWrites>>

\* dashboard.js:160-171
StatsResponse(i, resp) ==
  /\ LogView
  /\ i \in 1..Len(requests) /\ requests[i].kind = "stats"
  /\ requests' = RemoveAt(requests, i)
  /\ IF ~resp.ok
     THEN /\ diagnostics' = Append(diagnostics, "Error fetching stats: " \o resp.error)
          /\ UNCHANGED dom
     ELSE /\ UNCHANGED diagnostics
          /\ dom' = IF Has(resp.data, "uptime_stats")
                    THEN updateStats(dom, TRUE,
                           [total_messages |-> resp.data.uptime_stats.total_messages,
                            messages_today |-> resp.data.total_messages_today,
                            last_seen |-> resp.data.uptime_stats.last_seen])
                    ELSE dom
  /\ UNCHANGED <<clock, errored, page, pc, systemState, users, consoleElement, autoScroll,
                 connectionStatus, eventSource, handles, timers, inputs, arrivals, base,
                 direct, lastSet, otherWrites>>

\* dashboard.js:290  data.messages.forEach(msg => addLogEntry(msg)): a throw
\* ends the loop, the entries appended before it stay
RECURSIVE addEach(_, _, _)
addEach(children, n, messages) ==
  IF messages = <<>>
  THEN [children |-> children, appended |-> 0, threw |-> FALSE]
  ELSE LET r == addLogEntryLogView(children, n + 1, "object", Head(messages))
       IN IF r.threw
          THEN r
          ELSE LET rest == addEach(r.children, n + r.appended, Tail(messages))
               IN [rest EXCEPT !.appended = @ + r.appended]

\* dashboard.js:285-293
InitDataResponse(i, resp) ==
  /\ LogView
  /\ i \in 1..Len(requests) /\ requests[i].kind = "init-data"
  /\ requests' = RemoveAt(requests, i)
  /\ IF ~resp.ok
     THEN /\ diagnostics' = Append(diagnostics, "Error fetching initial data: " \o resp.error)
          /\ UNCHANGED <<consoleElement, arrivals>>
     ELSE IF ~Has(resp.data, "messages")
     THEN UNCHANGED <<diagnostics, consoleElement, arrivals>>
     ELSE LET r == addEach(consoleElement, arrivals, resp.data.messages)
          IN /\ consoleElement' = r.children
             /\ arrivals' = arrivals + r.appended
             /\ diagnostics' = IF r.threw
                               THEN Append(diagnostics, "Error fetching initial data: TypeError")
                               ELSE diagnostics
  /\ UNCHANGED <<clock, errored, page, pc, systemState, users, dom, autoScroll, connectionStatus,
                 eventSource, handles, timers, inputs, base, direct, lastSet,
                 otherWrites>>

\* dashboard.js:199-205.  A disabled button fires no click.
ClickCleanup ==
  /\ LogView /\ pc = "ready"
  /\ ~dom.cleanup_logs.disabled
  /\ inputs < MaxInputs
  /\ inputs' = inputs + 1
  /\ dom' = [dom EXCEPT !.cleanup_logs = [text |-> "Cleaning...", disabled |-> TRUE]]
  /\ requests' = Append(requests, [kind |-> "cleanup"])
  /\ UNCHANGED <<clock, errored, page, pc, systemState, users, consoleElement, autoScroll,
                 connectionStatus, eventSource, handles, timers, diagnostics,
                 arrivals, base, direct, lastSet, otherWrites>>

\* dashboard.js:209-223.  space_freed_mb.toFixed(2) throws when the field is absent.
CleanupMessage(data) ==
  IF Has(data, "error") THEN "Error: " \o data.error
  ELSE "Cleaned up " \o ToString(data.files_deleted) \o " files, freed "
       \o ToString(data.space_freed_mb) \o ".00 MB"
       \o (IF Has(data, "forced") /\ data.forced THEN " (forced cleanup)" ELSE "")

\* A cleanup handler whose failure path leaves the button as it is: what C28
\* rules out.
CleanupResponseNoRestoreOnFailure(i, resp) ==
  /\ LogView
  /\ i \in 1..Len(requests) /\ requests[i].kind = "cleanup"
  /\ requests' = RemoveAt(requests, i)
  /\ LET restored == [dom EXCEPT !.cleanup_logs =
                        [text |-> "Clean Old Logs", disabled |-> FALSE]]
     IN IF ~resp.ok
        THEN /\ diagnostics' = Append(diagnostics, "Error during cleanup: " \o resp.error)
             /\ UNCHANGED <<dom, consoleElement, arrivals, direct>>
        ELSE IF ~Has(resp.data, "error") /\ ~Has(resp.data, "space_freed_mb")
        THEN /\ diagnostics' = Append(diagnostics, "Error during cleanup: TypeError")
             /\ UNCHANGED <<dom, consoleElement, arrivals, direct>>
        ELSE /\ consoleElement' =
                  Append(consoleElement,
                         [n |-> arrivals + 1, kind |-> "SYSTEM",
                          message |-> CleanupMessage(resp.data)])
             /\ arrivals' = arrivals + 1
             /\ direct' = direct + 1
             /\ dom' = IF ~Has(resp.data, "error") /\ Has(resp.data, "forced")
                          /\ resp.data.forced /\ Has(resp.data, "force_cleanup")
                          /\ resp.data.force_cleanup
                       THEN [restored EXCEPT !.total_messages = "0", !.messages_today = "0"]
                       ELSE restored
             /\ UNCHANGED diagnostics
  /\ UNCHANGED <<clock, errored, page, pc, systemState, users, autoScroll, connectionStatus,
                 eventSource, handles, timers, inputs, base, lastSet, otherWrites>>

\* dashboard.js:206-241.  The entry is appended to the console directly.
CleanupResponse(i, resp) ==
  /\ LogView
  /\ i \in 1..Len(requests) /\ requests[i].kind = "cleanup"
  /\ requests' = RemoveAt(requests, i)
  /\ LET restored == [dom EXCEPT !.cleanup_logs =
                        [text |-> "Clean Old Logs", disabled |-> FALSE]]
     IN IF ~resp.ok
        THEN /\ diagnostics' = Append(diagnostics, "Error during cleanup: " \o resp.error)
             /\ dom' = restored
             /\ UNCHANGED <<consoleElement, arrivals, direct>>
        ELSE IF ~Has(resp.data, "error") /\ ~Has(resp.data, "space_freed_mb")
        THEN /\ diagnostics' = Append(diagnostics, "Error during cleanup: TypeError")
             /\ dom' = restored
             /\ UNCHANGED <<consoleElement, arrivals, direct>>
        ELSE /\ consoleElement' =
                  Append(consoleElement,
                         [n |-> arrivals + 1, kind |-> "SYSTEM",
                          message |-> CleanupMessage(resp.data)])
             /\ arrivals' = arrivals + 1
             /\ direct' = direct + 1
             /\ dom' = IF ~Has(resp.data, "error") /\ Has(resp.data, "forced")
                          /\ resp.data.forced /\ Has(resp.data, "force_cleanup")
                          /\ resp.data.force_cleanup
                       THEN [restored EXCEPT !.total_messages = "0", !.messages_today = "0"]
                       ELSE restored
             /\ UNCHANGED diagnostics
  /\ UNCHANGED <<clock, errored, page, pc, systemState, users, autoScroll, connectionStatus,
                 eventSource, handles, timers, inputs, base, lastSet, otherWrites>>

\* dashboard.js:245-246
ClickViewStorage ==
  /\ LogView /\ pc = "ready"
  /\ inputs < MaxInputs
  /\ inputs' = inputs + 1
  /\ requests' = Append(requests, [kind |-> "storage"])
  /\ UNCHANGED <<clock, errored, page, pc, systemState, users, dom, consoleElement, autoScroll,
                 connectionStatus, eventSource, handles, timers, diagnostics,
                 arrivals, base, direct, lastSet, otherWrites>>

\* dashboard.js:254-258: the fields toFixed is called on; it throws when one
\* of them is absent
StorageSizeFields ==
  {"data_dir_size_mb", "disk_used_percent", "disk_total_mb", "disk_free_mb"}

\* dashboard.js:254-261: the size fields stay numbers; a field that is only
\* interpolated becomes text, "undefined" when it is absent
StorageMessage(data) ==
  [f \in StorageFields |->
     IF f \in StorageSizeFields THEN data[f]
     ELSE IF Has(data, f) THEN ToString(data[f]) ELSE "undefined"]

\* dashboard.js:247-271
StorageResponse(i, resp) ==
  /\ LogView
  /\ i \in 1..Len(requests) /\ requests[i].kind = "storage"
  /\ requests' = RemoveAt(requests, i)
  /\ IF ~resp.ok
     THEN /\ diagnostics' = Append(diagnostics, "Error getting storage info: " \o resp.error)
          /\ UNCHANGED <<consoleElement, arrivals, direct>>
     ELSE IF ~(StorageSizeFields \subseteq DOMAIN resp.data)
     THEN /\ diagnostics' = Append(diagnostics, "Error getting storage info: TypeError")
          /\ UNCHANGED <<consoleElement, arrivals, direct>>
     ELSE /\ consoleElement' =
               Append(consoleElement,
                      [n |-> arrivals + 1, kind |-> "STORAGE",
                       message |-> StorageMessage(resp.data)])
          /\ arrivals' = arrivals + 1
          /\ direct' = direct + 1
          /\ UNCHANGED diagnostics
  /\ UNCHANGED <<clock, errored, page, pc, systemState, users, dom, autoScroll, connectionStatus,
                 eventSource, handles, timers, inputs, base, lastSet, otherWrites>>

(***************************************************************************)
(* The event loop: one callback at a time.                                 *)
(***************************************************************************)
Next ==
  \/ DOMContentLoadedRoom
  \/ DOMContentLoadedLogView
  \/ \E h \in 1..Len(handles) : StreamOpen(h)
  \/ \E h \in 1..Len(handles), fatal \in BOOLEAN : StreamError(h, fatal)
  \/ ReconnectTimer
  \/ Tick
  \/ ClearLog
  \/ ToggleAutoScroll
  \/ \E h \in 1..Len(handles), frame \in RoomFrames : RoomMessage(h, frame)
  \/ \E i \in 1..Len(requests), resp \in UsersResponses : UsersResponse(i, resp)
  \/ \E command \in {"on", "off"} : ClickLight(command)
  \/ ClickToggleOverride
  \/ \E i \in 1..Len(requests), resp \in CommandResponses : LightResponse(i, resp)
  \/ \E i \in 1..Len(requests), resp \in CommandResponses : OverrideResponse(i, resp)
  \/ \E h \in 1..Len(handles), frame \in LogViewFrames : LogViewMessage(h, frame)
  \/ FetchStats
  \/ \E i \in 1..Len(requests), resp \in StatsResponses : StatsResponse(i, resp)
  \/ \E i \in 1..Len(requests), resp \in InitDataResponses : InitDataResponse(i, resp)
  \/ ClickCleanup
  \/ \E i \in 1..Len(requests), resp \in CleanupResponses : CleanupResponse(i, resp)
  \/ ClickViewStorage
  \/ \E i \in 1..Len(requests), resp \in StorageResponses : StorageResponse(i, resp)

Spec == Init /\ [][Next]_vars


(***************************************************************************)
(* A long session.  The capacities are 100 and 500 entries, so a session   *)
(* reaches them only after that many appends.  The long-session            *)
(* specification also starts from the states a quiet session is in after   *)
(* that long: the page has loaded, its first fetches have settled, the     *)
(* stream is open and has delivered k frames of one kind (welcome frames   *)
(* in the room view, message frames in the log view), each logged by       *)
(* addLogEntry.                                                            *)
(***************************************************************************)
\* the console after the page load and k - 1 welcome frames, none of which
\* overflowed it (k - 1 + 2 <= 100), and then one more
QuietRoomConsole(k) ==
  LET welcome == [type |-> "welcome", timestamp |-> "10:00:01",
                  message |-> "Welcome Ana!", user |-> "Ana"]
      loaded == <<PlaceholderEntry,
                  logEntry(1, [type |-> "info",
                               message |-> "Smart Room Dashboard initialized"])>>
  IN addLogEntry(loaded \o [i \in 1..(k - 1) |-> logEntry(i + 1, welcome)], k + 1, welcome)

\* the console after k - 1 message frames (k - 1 <= 500), and then one more
QuietLogViewConsole(k) ==
  addLogEntryLogView([i \in 1..(k - 1) |-> messageEntry(i, StoredMessage)], k,
                     "object", StoredMessage).children

QuietRoomInit ==
  /\ clock = 0
  /\ errored = {}
  /\ page = "room+override"
  /\ pc = "ready"
  /\ systemState = DefaultSystemState
  /\ users = [i \in {1} |-> [name |-> "Ana"]]
  /\ dom = updateUsersInRoom(RoomPage, DefaultSystemState, users)
  /\ \E k \in (RoomLogCap - QuietSlack - 2)..(RoomLogCap - 2) :
       /\ consoleElement = QuietRoomConsole(k)
       /\ arrivals = k + 1
  /\ autoScroll = TRUE
  /\ connectionStatus = onopenStatus(ConnectionStatusElement)
  /\ eventSource = 1
  /\ handles = <<OPEN>>
  /\ timers = <<>>
  /\ requests = <<>>
  /\ diagnostics = <<>>
  /\ inputs = 0
  /\ base = -1
  /\ direct = 0
  /\ lastSet = [f \in Fields |-> [set |-> FALSE]]
  /\ otherWrites = FALSE

QuietLogViewInit ==
  /\ clock = 0
  /\ errored = {}
  /\ page = "log"
  /\ pc = "ready"
  /\ systemState = DefaultSystemState
  /\ users = <<>>
  /\ dom = updateStats(LogPage, TRUE,
                       [total_messages |-> 9, messages_today |-> 4, last_seen |-> "t2"])
  /\ \E k \in (LogViewCap - QuietSlack)..LogViewCap :
       /\ consoleElement = QuietLogViewConsole(k)
       /\ arrivals = k
  /\ autoScroll = TRUE
  /\ connectionStatus = onopenStatus(ConnectionStatusElement)
  /\ eventSource = 1
  /\ handles = <<OPEN>>
  /\ timers = <<>>
  /\ requests = <<>>
  /\ diagnostics = <<>>
  /\ inputs = 0
  /\ base = -1
  /\ direct = 0
  /\ lastSet = [f \in Fields |-> [set |-> FALSE]]
  /\ otherWrites = FALSE

\* the room view after a clear that removed the placeholder and the entry of
\* page load, and 99 or 100 welcome events since
QuietClearedInit ==
  /\ clock = 0
  /\ errored = {}
  /\ page = "room+override"
  /\ pc = "ready"
  /\ systemState = DefaultSystemState
  /\ users = [i \in {1} |-> [name |-> "Ana"]]
  /\ dom = updateUsersInRoom(RoomPage, DefaultSystemState, users)
  /\ \E k \in (RoomLogCap - 1)..RoomLogCap :
       /\ consoleElement =
            addLogEntry([i \in 1..(k - 1) |->
                           logEntry(i + 1, [type |-> "welcome", timestamp |-> "10:00:01",
                                            message |-> "Welcome Ana!", user |-> "Ana"])],
                        k + 1,
                        [type |-> "welcome", timestamp |-> "10:00:01",
                         message |-> "Welcome Ana!", user |-> "Ana"])
       /\ arrivals = k + 1
  /\ autoScroll = TRUE
  /\ connectionStatus = onopenStatus(ConnectionStatusElement)
  /\ eventSource = 1
  /\ handles = <<OPEN>>
  /\ timers = <<>>
  /\ requests = <<>>
  /\ diagnostics = <<>>
  /\ inputs = 0
  /\ base = 1
  /\ direct = 0
  /\ lastSet = [f \in Fields |-> [set |-> FALSE]]
  /\ otherWrites = FALSE

LongInit == Init \/ QuietRoomInit \/ QuietLogViewInit \/ QuietClearedInit

LongSpec == LongInit /\ [][Next]_vars


(***************************************************************************)
(* Properties.                                                             *)
(***************************************************************************)
Last(seq) == seq[Len(seq)]

Capacity == IF LogView THEN LogViewCap ELSE RoomLogCap

\* C1: when RoomState has been written only by initial_state/update events,
\* applied in order from the default, every field some event supplied holds
\* the value of the last event that supplied it (users_in_room replaced
\* whole, not merged) and every other field still holds its default.
C1_LastWriteWins ==
  ~otherWrites =>
    \A f \in Fields :
      systemState[f] = IF lastSet[f].set THEN lastSet[f].value ELSE DefaultSystemState[f]

\* two updates supplied luminosity and users_in_room, only the first supplied
\* light_state
C1_Witness ==
  /\ ~otherWrites
  /\ lastSet.light_state.set /\ lastSet.light_state.value = FALSE
  /\ lastSet.users_in_room.set /\ lastSet.users_in_room.value = <<2>>
  /\ systemState.luminosity = 301
  /\ systemState.users_in_room = <<2>>

\* C2: in both views the console never holds more entries than the view's
\* capacity (100 room view, 500 log view), whatever handler ran last.
C2_LogWithinCapacity ==
  Len(consoleElement) <= (IF LogView THEN 500 ELSE 100)

\* C3: as long as every entry since page load or the last clear was appended
\* by addLogEntry, the appended entries the console retains are exactly the
\* most recent min(n, capacity) of the n appended, oldest first.
C3_FifoRetention ==
  direct = 0 =>
    LET appended == SelectSeq(consoleElement, LAMBDA e : e.kind # "placeholder")
        n == arrivals - (IF base < 0 THEN 0 ELSE base)
        m == IF n < Capacity THEN n ELSE Capacity
    IN /\ Len(appended) = m
       /\ \A i \in 1..m : appended[i].n = arrivals - m + i

\* the room console after its 101st append: entry 1 was evicted, 2..101 stay
C3_Witness ==
  /\ RoomView /\ direct = 0 /\ base = -1
  /\ arrivals = 101
  /\ Len(consoleElement) = 100
  /\ consoleElement[1].n = 2
  /\ consoleElement[100].n = 101

\* C4: a stream error sets the status element to disconnected and schedules
\* exactly one reconnect, without reconnecting at once; after page load
\* connectToEventSource is called only by such a timer, not before 5 seconds
\* have elapsed since its error, and each timer makes exactly one call.
C4_ErrorSchedulesOneReconnect ==
  [][ /\ (\E h \in 1..Len(handles), fatal \in BOOLEAN : StreamError(h, fatal)) =>
           /\ connectionStatus'.text = "Disconnected"
           /\ "disconnected" \in connectionStatus'.class
           /\ "connected" \notin connectionStatus'.class
           /\ Len(timers') = Len(timers) + 1
           /\ Last(timers') = 0
           /\ Len(handles') = Len(handles)
      /\ (pc # "parsed" /\ Len(handles') # Len(handles)) =>
           /\ timers # <<>> /\ Head(timers) >= 5
           /\ timers' = Tail(timers)
           /\ Len(handles') = Len(handles) + 1
      /\ Len(timers') < Len(timers) =>
           /\ Len(timers') = Len(timers) - 1
           /\ Len(handles') = Len(handles) + 1
    ]_vars

\* two errors, and each one's timer has made its call
C4_Witness ==
  /\ Len(handles) = 3
  /\ timers = <<>>
  /\ connectionStatus.text = "Disconnected"
  /\ "disconnected" \in connectionStatus.class

\* C5: at most one stream handle is not closed.
C5_OneLiveHandle ==
  Cardinality({h \in 1..Len(handles) : handles[h] # CLOSED}) <= 1

\* the first handle had reopened by itself after its error; the reconnect
\* closed it and created the second
C5_Witness ==
  /\ Len(handles) = 2
  /\ handles[1] = CLOSED /\ handles[2] # CLOSED
  /\ eventSource = 2
  /\ connectionStatus.text = "Connected"

\* C6: a frame that is not JSON changes nothing but the diagnostics: RoomState,
\* the console, the tiles, the status element and everything a later frame's
\* handling reads stay as they were.
C6_MalformedFrameIgnored ==
  [][ (\E h \in 1..Len(handles) :
         RoomMessage(h, InvalidFrame) \/ LogViewMessage(h, InvalidFrame)) =>
        /\ UNCHANGED <<clock, errored, page, pc, systemState, users, dom, consoleElement, autoScroll,
                       connectionStatus, eventSource, handles, timers, requests,
                       arrivals, base, direct>>
        /\ Len(diagnostics') > Len(diagnostics)
        /\ SubSeq(diagnostics', 1, Len(diagnostics)) = diagnostics
    ]_vars

\* a malformed frame arrived and a later frame was appended to the console
C6_Witness ==
  /\ diagnostics # <<>>
  /\ diagnostics[1] = "Error parsing event data: SyntaxError"
  /\ consoleElement # <<>>
  /\ Last(consoleElement).n = arrivals
  /\ Last(consoleElement).kind \in {"update", "welcome", "message", "raw"}

\* C7: a light command answered with success and a state merges that state
\* into RoomState, leaves the light tile showing ON exactly when the merged
\* light_state is true, and appends exactly one entry, of kind control.
C7_LightSuccessOneControlEntry ==
  [][ \A i \in 1..Len(requests) :
        \A resp \in {r \in CommandResponses :
                       r.ok /\ r.data.status = "success" /\ Has(r.data, "state")} :
          LightResponse(i, resp) =>
            /\ systemState' = ObjectAssign(systemState, resp.data.state)
            /\ (dom'.light_status.text = "ON") <=> systemState'.light_state
            /\ arrivals' = arrivals + 1
            /\ Last(consoleElement').kind = "control"
    ]_vars

\* C8: a command answered with a status other than success, or whose request
\* fails, leaves RoomState unchanged and appends exactly one entry, of kind
\* error.
C8_FailureOneErrorEntry ==
  [][ \A i \in 1..Len(requests) :
        \A resp \in {r \in CommandResponses : ~r.ok \/ r.data.status # "success"} :
          (LightResponse(i, resp) \/ OverrideResponse(i, resp)) =>
            /\ systemState' = systemState
            /\ arrivals' = arrivals + 1
            /\ Last(consoleElement').n = arrivals'
            /\ Last(consoleElement').kind = "error"
    ]_vars

\* the failure response carried a state with manual_override true
C8_Witness ==
  /\ consoleElement # <<>>
  /\ Last(consoleElement).kind = "error"
  /\ Last(consoleElement).message = "Failed to toggle override: busy"
  /\ systemState = DefaultSystemState

\* C9: the luminosity icon is bright above 700, partial above 300 up to 700,
\* dark at 300 and below: for the value the tile shows in every state, and
\* for the icon function at the boundaries (evaluated once, at page load).
C9_LuminosityIcon ==
  LET icon(v) == IF v > 700 THEN "sun" ELSE IF v > 300 THEN "sun_cloud" ELSE "new_moon"
  IN /\ (RoomView /\ dom.luminosity_value # "Unknown") =>
          dom.luminosity_icon = icon(systemState.luminosity)
     /\ pc = "parsed" =>
          \A v \in {-1, 0, 1, 299, 300, 301, 302, 699, 700, 701, 702, 1023, 1024} :
            LuminosityIcon(v) = icon(v)

\* the tile shows 700 with the partial icon
C9_Witness ==
  /\ RoomView
  /\ systemState.luminosity = 700
  /\ dom.luminosity_value = "700"
  /\ dom.luminosity_icon = "sun_cloud"

\* the elements the renderers write
TileFields ==
  {"light_status", "light_icon", "door_status", "door_icon", "presence_status",
   "presence_icon", "luminosity_value", "luminosity_icon", "users_list",
   "arduino_status", "override_status", "override_icon", "toggle_override"}

TileView(d) == [k \in TileFields |-> d[k]]

\* part_001:30-36, every renderer the page can run
Render(d, s, dir) ==
  IF HasOverrideUI THEN updateOverrideStatus(RenderTiles(d, s, dir), s)
  ELSE RenderTiles(d, s, dir)

\* C10: rendering the current RoomState and directory over whatever the page
\* shows, then rendering again, changes nothing the second time; and the tiles
\* and the roster it produces are those it produces over the page as loaded.
C10_RenderIdempotent ==
  RoomView =>
    LET once == Render(dom, systemState, users)
        twice == Render(once, systemState, users)
        fresh == Render(RoomPage, systemState, users)
    IN /\ twice = once
       /\ TileView(once) = TileView(fresh)

\* the page shows the controller tile of a stream error over a RoomState
\* that says connected, and a roster of two
C10_Witness ==
  /\ RoomView
  /\ systemState.arduino_connected
  /\ "error-state" \in dom.arduino_status.class
  /\ Render(dom, systemState, users) # dom

\* the decoded object of a frame has a type other than stats
IsTypedNotStats(frame) ==
  frame.json = "object" /\ Has(frame.data, "type") /\ frame.data.type # "stats"

\* C11: in each view a frame that decodes to an object with a type other
\* than stats appends exactly one entry to the console.
C11_OneEntryPerEvent ==
  [][ \A h \in 1..Len(handles) :
        \A frame \in {f \in RoomFrames \cup LogViewFrames : IsTypedNotStats(f)} :
          (RoomMessage(h, frame) \/ LogViewMessage(h, frame)) =>
            /\ arrivals' = arrivals + 1
            /\ Last(consoleElement').n = arrivals'
    ]_vars

IsStats(frame) ==
  frame.json = "object" /\ Has(frame.data, "type") /\ frame.data.type = "stats"

\* C12: in both views a stats event leaves the console as it was: the same
\* entries, and nothing appended and evicted in between.
C12_StatsNeverLogged ==
  [][ \A h \in 1..Len(handles) :
        \A frame \in {f \in RoomFrames \cup LogViewFrames : IsStats(f)} :
          (RoomMessage(h, frame) \/ LogViewMessage(h, frame)) =>
            /\ consoleElement' = consoleElement
            /\ arrivals' = arrivals
    ]_vars

\* the log view rendered the counts of a stats event; its console holds the
\* one message that arrived on the same stream
C12_Witness ==
  /\ LogView
  /\ dom.total_messages = "7"
  /\ arrivals = 1
  /\ Len(consoleElement) = 1
  /\ consoleElement[1].kind = "message"

\* C13: in the room view an override event sets manual_override to the
\* event's enabled value, leaves every other RoomState field as it was and
\* appends exactly one entry, of kind control.
C13_OverrideEvent ==
  [][ \A h \in 1..Len(handles) :
        \A frame \in {f \in RoomFrames : IsOverrideEvent(f)} :
          RoomMessage(h, frame) =>
            /\ systemState'.manual_override = frame.data.enabled
            /\ \A f \in Fields \ {"manual_override"} : systemState'[f] = systemState[f]
            /\ arrivals' = arrivals + 1
            /\ Last(consoleElement').n = arrivals'
            /\ Last(consoleElement').kind = "control"
    ]_vars

\* an override event switched the flag off again after an update had set it,
\* and the update's other fields are still there
C13_Witness ==
  /\ RoomView
  /\ ~systemState.manual_override
  /\ systemState.arduino_connected /\ systemState.luminosity = 700
  /\ consoleElement # <<>>
  /\ Last(consoleElement).kind = "control"
  /\ Last(consoleElement).message = "Manual override disabled"
  /\ dom.toggle_override = "Enable Override"

\* C14: in the room view a welcome event leaves RoomState and the user
\* directory as they were and appends exactly one entry, of kind welcome,
\* whose user is the event's user_name.
C14_WelcomeEvent ==
  [][ \A h \in 1..Len(handles) :
        \A frame \in {f \in RoomFrames : f.json = "object" /\ Has(f.data, "type")
                                           /\ f.data.type = "welcome"} :
          RoomMessage(h, frame) =>
            /\ systemState' = systemState
            /\ users' = users
            /\ arrivals' = arrivals + 1
            /\ Last(consoleElement').n = arrivals'
            /\ Last(consoleElement').kind = "welcome"
            /\ Last(consoleElement').user = frame.data.user_name
    ]_vars

\* a welcome arrived after an update and a loaded directory: both are intact
C14_Witness ==
  /\ RoomView
  /\ consoleElement # <<>>
  /\ Last(consoleElement).kind = "welcome"
  /\ Last(consoleElement).user = "Ana"
  /\ Last(consoleElement).message = "Welcome Ana!"
  /\ systemState.luminosity = 301 /\ systemState.users_in_room = <<2>>
  /\ users # <<>>

SuccessWithState == {r \in CommandResponses :
                       r.ok /\ r.data.status = "success" /\ Has(r.data, "state")}

\* C15: a merge, whether of an initial_state/update event or of a successful
\* command response, leaves every RoomState field the partial state does not
\* have at its previous value.
C15_AbsentFieldsKept ==
  [][ /\ \A h \in 1..Len(handles) :
           \A frame \in {f \in RoomFrames : IsStateEvent(f)} :
             RoomMessage(h, frame) =>
               \A f \in Fields \ DOMAIN frame.data.system_state :
                 systemState'[f] = systemState[f]
      /\ \A i \in 1..Len(requests) :
           \A resp \in SuccessWithState :
             (LightResponse(i, resp) \/ OverrideResponse(i, resp)) =>
               \A f \in Fields \ DOMAIN resp.data.state :
                 systemState'[f] = systemState[f]
    ]_vars

\* light_state and last_update were set by one merge and survived a second
\* merge that has neither
C15_Witness ==
  /\ systemState.light_state /\ systemState.last_update = "t1"
  /\ systemState.luminosity = 700
  /\ systemState.arduino_connected /\ systemState.manual_override

\* C16: whatever else is in flight, and in whatever order the requests were
\* issued, a successful response's state is merged in the step in which it
\* arrives: every field it has holds its value afterwards, as for a stream
\* update, so the value of a field is that of the merge that arrived last.
C16_ArrivalOrderWins ==
  [][ /\ \A i \in 1..Len(requests) :
           \A resp \in SuccessWithState :
             (LightResponse(i, resp) \/ OverrideResponse(i, resp)) =>
               \A f \in DOMAIN resp.data.state : systemState'[f] = resp.data.state[f]
      /\ \A h \in 1..Len(handles) :
           \A frame \in {f \in RoomFrames : IsStateEvent(f)} :
             RoomMessage(h, frame) =>
               \A f \in DOMAIN frame.data.system_state :
                 systemState'[f] = frame.data.system_state[f]
    ]_vars

\* two commands were issued; the response to the second has arrived and is
\* merged while the first is still in flight
C16_Witness ==
  /\ HasOverrideUI /\ inputs = 2
  /\ \E i \in 1..Len(requests) : requests[i].kind = "light" /\ requests[i].issued = 1
  /\ \A i \in 1..Len(requests) : requests[i].kind = "light" => requests[i].issued = 1
  /\ otherWrites
  /\ systemState.luminosity = 700 /\ systemState.manual_override
  /\ consoleElement # <<>> /\ Last(consoleElement).kind = "control"

(***************************************************************************)
(* Timers fire: the one-second interval keeps running and a timeout whose  *)
(* delay has elapsed is run by the event loop.                             *)
(***************************************************************************)
FairSpec == Init /\ [][Next]_vars /\ WF_vars(Tick) /\ WF_vars(ReconnectTimer)

\* C17: while a reconnect is pending, a new connection attempt follows,
\* whether the failed handle is the first one or itself the product of a
\* reconnect after an earlier failure.
C17_ReconnectNeverGivesUp ==
  \A k \in 1..(MaxHandles - 1) :
    (Len(handles) = k /\ timers # <<>>) ~> (Len(handles) > k)

\* the first handle failed, the handle of its reconnect failed as well, and
\* the attempt that followed the second failure is open
C17_Witness ==
  /\ Len(handles) = 3
  /\ errored = {1, 2}
  /\ handles[1] = CLOSED /\ handles[2] = CLOSED /\ handles[3] = OPEN
  /\ timers = <<>>
  /\ connectionStatus.text = "Connected"

\* C18: the status element changes only in an open or an error callback of
\* the stream; an open leaves it connected, an error leaves it disconnected.
C18_StatusOnlyFromLifecycle ==
  [][ /\ connectionStatus' # connectionStatus =>
           \/ \E h \in 1..Len(handles) : StreamOpen(h)
           \/ \E h \in 1..Len(handles), fatal \in BOOLEAN : StreamError(h, fatal)
      /\ (\E h \in 1..Len(handles) : StreamOpen(h)) =>
           /\ connectionStatus'.text = "Connected"
           /\ "connected" \in connectionStatus'.class
           /\ "disconnected" \notin connectionStatus'.class
      /\ (\E h \in 1..Len(handles), fatal \in BOOLEAN : StreamError(h, fatal)) =>
           /\ connectionStatus'.text = "Disconnected"
           /\ "disconnected" \in connectionStatus'.class
           /\ "connected" \notin connectionStatus'.class
    ]_vars

\* the reconnect call has been made and its handle is still connecting: the
\* status element still says disconnected
C18_Witness ==
  /\ Len(handles) = 2
  /\ handles[1] = CLOSED /\ handles[2] = CONNECTING
  /\ timers = <<>>
  /\ connectionStatus.text = "Disconnected"
  /\ "disconnected" \in connectionStatus.class

\* C19: a clear leaves the console with zero entries and changes nothing
\* else (RoomState, the status element, the auto-scroll flag, the tiles, the
\* stream, the requests); the appends that follow accumulate from empty, up
\* to the capacity of the view.
C19_ClearEmptiesOnlyTheLog ==
  /\ [][ ClearLog =>
           /\ consoleElement' = <<>>
           /\ UNCHANGED <<clock, errored, page, pc, systemState, users, dom, autoScroll,
                          connectionStatus, eventSource, handles, timers, requests,
                          diagnostics, arrivals>>
       ]_vars
  /\ [](base >= 0 /\ direct = 0 =>
          /\ Len(consoleElement) =
               (IF arrivals - base < Capacity THEN arrivals - base ELSE Capacity)
          /\ \A i \in 1..Len(consoleElement) :
               consoleElement[i].n = arrivals - Len(consoleElement) + i)

\* a room console with 100 children was cleared and one event has arrived
\* since: its entry is alone in the console
C19_Witness ==
  /\ RoomView
  /\ base = 99 /\ arrivals = 100
  /\ Len(consoleElement) = 1
  /\ consoleElement[1].n = 100
  /\ autoScroll /\ connectionStatus.text = "Connected"

\* the roster the claim describes for a list of ids and a directory
IsRosterOf(list, ids, dir) ==
  IF ids = <<>>
  THEN /\ Len(list) = 1
       /\ list[1].class = "no-users"
  ELSE /\ Len(list) = Len(ids)
       /\ \A i \in 1..Len(ids) :
            /\ list[i].class = "user-item"
            /\ list[i].name = IF ids[i] \in DOMAIN dir THEN dir[ids[i]].name
                              ELSE "User " \o ToString(ids[i])

\* C20: the roster has one item per id of users_in_room, in order, showing
\* the directory's name for the id or "User {id}" when the directory has
\* none, and exactly one "no users" placeholder when the list is empty: for
\* the roster the page shows in every state, and for the renderer on every
\* list of up to two ids out of 1..3 over every directory the backend sends
\* (evaluated once, at page load).
C20_Roster ==
  /\ RoomView => IsRosterOf(dom.users_list, systemState.users_in_room, users)
  /\ pc = "parsed" =>
       \A resp \in {r \in UsersResponses : r.ok} \cup {[data |-> <<>>]} :
         \A ids \in {<<>>} \cup {<<a>> : a \in 1..3} \cup {<<a, b>> : a, b \in 1..3} :
           IsRosterOf(updateUsersInRoom(RoomPage,
                                        [DefaultSystemState EXCEPT !.users_in_room = ids],
                                        resp.data).users_list,
                      ids, resp.data)

\* the directory knows user 1 only; the room holds users 1 and 2
C20_Witness ==
  /\ RoomView
  /\ systemState.users_in_room = <<1, 2>>
  /\ DOMAIN users = {1}
  /\ Len(dom.users_list) = 2
  /\ dom.users_list[1].name = "Ana"
  /\ dom.users_list[2].name = "User 2"

\* the command requests in flight
CommandsInFlight(reqs) ==
  Cardinality({i \in 1..Len(reqs) : reqs[i].kind \in {"light", "override"}})

IsCommandClick == (\E command \in {"on", "off"} : ClickLight(command)) \/ ClickToggleOverride

\* C21: a light or override click sends exactly one command request, nothing
\* but a click sends one, and a response or a transport error takes its
\* request out of flight without sending another: requests sent = clicks.
C21_OneRequestPerClick ==
  [][ /\ IsCommandClick => CommandsInFlight(requests') = CommandsInFlight(requests) + 1
      /\ CommandsInFlight(requests') > CommandsInFlight(requests) => IsCommandClick
      /\ \A i \in 1..Len(requests) :
           \A resp \in CommandResponses :
             (LightResponse(i, resp) \/ OverrideResponse(i, resp)) =>
               CommandsInFlight(requests') = CommandsInFlight(requests) - 1
    ]_vars

\* one click, its request failed in transport, nothing is in flight
C21_Witness ==
  /\ inputs = 1
  /\ CommandsInFlight(requests) = 0
  /\ consoleElement # <<>>
  /\ Last(consoleElement).kind = "error"
  /\ Last(consoleElement).message = "Error controlling light: Failed to fetch"

IsMessage(frame) ==
  frame.json = "object" /\ Has(frame.data, "type") /\ frame.data.type = "message"

\* C22: in the log view every decoded message event appends one entry whose
\* source is the payload's source, or "unknown", and whose status is the
\* payload's status, or empty, also when the event has no payload object;
\* the handler does not throw.
C22_MessageDefaults ==
  [][ \A h \in 1..Len(handles) :
        \A frame \in {f \in LogViewFrames : IsMessage(f)} :
          LogViewMessage(h, frame) =>
            LET payload == IF Has(frame.data, "data") THEN frame.data.data ELSE <<>>
            IN /\ diagnostics' = diagnostics
               /\ arrivals' = arrivals + 1
               /\ Last(consoleElement').n = arrivals'
               /\ Last(consoleElement').kind = "message"
               /\ Last(consoleElement').source =
                    (IF Has(payload, "source") THEN payload.source ELSE "unknown")
               /\ Last(consoleElement').status =
                    (IF Has(payload, "status") THEN payload.status ELSE "")
    ]_vars

\* C23: after every step that changes manual_override (an override event, a
\* merged update, a merged command response) the override button reads
\* "Disable Override" when the flag is true and "Enable Override" otherwise.
C23_OverrideLabel ==
  [][ (RoomView /\ systemState'.manual_override # systemState.manual_override) =>
        dom'.toggle_override = IF systemState'.manual_override THEN "Disable Override"
                               ELSE "Enable Override"
    ]_vars

\* C24: an override click sends the negation of manual_override as it is at
\* the click, whatever is in flight, and the entry logged for a successful
\* response reports the value its request sent, not the one in the
\* response's state.
C24_ToggleReadsStateAtClick ==
  [][ /\ ClickToggleOverride =>
           /\ Last(requests').kind = "override"
           /\ Last(requests').enable = ~systemState.manual_override
      /\ \A i \in 1..Len(requests) :
           \A resp \in {r \in CommandResponses : r.ok /\ r.data.status = "success"} :
             OverrideResponse(i, resp) =>
               /\ arrivals' = arrivals + 1
               /\ Last(consoleElement').kind = "control"
               /\ Last(consoleElement').message =
                    (IF requests[i].enable THEN "Manual override enabled"
                     ELSE "Manual override disabled")
    ]_vars

\* two clicks before any response: the first response has switched the flag
\* on, and the request still in flight asks to switch it on as well
C24_Witness ==
  /\ inputs = 2
  /\ systemState.manual_override
  /\ \E i \in 1..Len(requests) : requests[i].kind = "override" /\ requests[i].enable
  /\ consoleElement # <<>>
  /\ Last(consoleElement).kind = "control"
  /\ Last(consoleElement).message = "Manual override enabled"
  /\ Last(consoleElement).details = ""

\* the controller tile has been rendered from RoomState at least once
ArduinoTileRendered ==
  RoomView /\ dom.arduino_status.class \cap {"status-on", "status-off"} # {}

\* C25: in the room view, once a merge has rendered the controller tile, it
\* reads "Connected" exactly when arduino_connected is true, after every
\* handler.
C25_ArduinoTileFollowsState ==
  ArduinoTileRendered =>
    ((dom.arduino_status.text = "Connected") <=> systemState.arduino_connected)

\* C26: whenever the status element shows connected, the handle created last
\* by connectToEventSource is open.
C26_ConnectedMeansCurrentOpen ==
  ("connected" \in connectionStatus.class \/ connectionStatus.text = "Connected") =>
    /\ eventSource # 0
    /\ handles[eventSource] = OPEN

\* the roster shows the directory's name for every listed id the directory has
NamesResolved(list, ids, dir) ==
  ids # <<>> =>
    /\ Len(list) = Len(ids)
    /\ \A i \in 1..Len(ids) : ids[i] \in DOMAIN dir => list[i].name = dir[ids[i]].name

\* C27: whichever arrives last, the directory or the event that sets
\* users_in_room, the step that processes it leaves a roster with the
\* directory's name for every listed id the directory has; so does every
\* state of the room view.
C27_RosterOrderIndependent ==
  /\ [][ /\ \A i \in 1..Len(requests) :
              \A resp \in {r \in UsersResponses : r.ok} :
                UsersResponse(i, resp) =>
                  NamesResolved(dom'.users_list, systemState.users_in_room, resp.data)
         /\ \A h \in 1..Len(handles) :
              \A frame \in {f \in RoomFrames : IsStateEvent(f)} :
                RoomMessage(h, frame) =>
                  NamesResolved(dom'.users_list, systemState'.users_in_room, users)
       ]_vars
  /\ [](RoomView => NamesResolved(dom.users_list, systemState.users_in_room, users))

\* the directory and an update listing users 1 and 2 have both arrived
C27_Witness ==
  /\ RoomView /\ pc = "ready"
  /\ \A i \in 1..Len(requests) : requests[i].kind # "users"
  /\ DOMAIN users = {1, 2}
  /\ systemState.users_in_room = <<1, 2>>
  /\ Len(dom.users_list) = 2
  /\ dom.users_list[1].name = "Ana" /\ dom.users_list[2].name = "Bia"

CleanupsInFlight == Cardinality({i \in 1..Len(requests) : requests[i].kind = "cleanup"})

\* C28: in the log view the cleanup button is disabled exactly while a
\* cleanup request is in flight, at most one is in flight, and every way the
\* request settles leaves the button enabled under its original label.
C28_CleanupButtonTracksRequest ==
  /\ [][ \A i \in 1..Len(requests) : \A resp \in CleanupResponses :
           CleanupResponse(i, resp) =>
             dom'.cleanup_logs = [text |-> "Clean Old Logs", disabled |-> FALSE]
       ]_vars
  /\ [](LogView /\ pc = "ready" =>
          /\ CleanupsInFlight <= 1
          /\ dom.cleanup_logs.disabled <=> CleanupsInFlight = 1)

\* a cleanup answered with a result lacking the expected fields has settled
C28_Witness ==
  /\ LogView /\ pc = "ready"
  /\ CleanupsInFlight = 0
  /\ \E k \in 1..Len(diagnostics) : diagnostics[k] = "Error during cleanup: TypeError"
  /\ dom.cleanup_logs = [text |-> "Clean Old Logs", disabled |-> FALSE]

\* C29: on the repository's room page the initialization handler runs to
\* completion: it opens the event stream, requests the user directory and
\* appends exactly one info entry "Smart Room Dashboard initialized".
C29_RoomInitCompletes ==
  [][ DOMContentLoadedRoom /\ page = "room" =>
        /\ pc' = "ready"
        /\ Len(handles') = 1 /\ eventSource' = 1
        /\ \E i \in 1..Len(requests') : requests'[i].kind = "users"
        /\ arrivals' = arrivals + 1
        /\ Len(consoleElement') = Len(consoleElement) + 1
        /\ Last(consoleElement').kind = "info"
        /\ Last(consoleElement').message = "Smart Room Dashboard initialized"
    ]_vars

====
